---- MODULE Spec2Model ----
(***************************************************************************)
(* A model of dagster_stitch.resources.StitchResource: the request/retry   *)
(* layer (make_request) and the blocking two-phase poll                    *)
(* (start_replication_job_and_poll) with the accessors it calls.           *)
(*                                                                         *)
(* Python values that the code compares or tests for truth keep their      *)
(* Python type: a value is a record [t |-> <type name>, v |-> <number>].   *)
(* Wall-clock time is counted in whole ticks.                              *)
(***************************************************************************)
EXTENDS Integers, Sequences, FiniteSets, TLC

\* ------------------------------------------------------------------ bounds
MaxRetries == 2      \* request_max_retries ranges over 0..MaxRetries
MaxTime == 2         \* the clock stops advancing at MaxTime

\* wire timestamps: before, at and after the instant the call starts at
WireTimes == {0, 1, 2}
LatestWire == CHOOSE w \in WireTimes : \A x \in WireTimes : x <= w

\* ------------------------------------------------------- program constants
DEFAULT_POLL_INTERVAL == 1   \* resources.py:18 (10.0 s is one tick)

\* ---------------------------------------------------------- Python values
None == [t |-> "NoneType", v |-> 0]
PyInt(n) == [t |-> "int", v |-> n]
PyFloat(n) == [t |-> "float", v |-> n]
Str(n) == [t |-> "str", v |-> n]            \* the wire text of second n
Datetime(n) == [t |-> "datetime", v |-> n]
Timedelta(n) == [t |-> "timedelta", v |-> n]
Dict(n) == [t |-> "dict", v |-> n]          \* a non-empty dict

\* bool(x) as Python computes it for the values above
Truthy(x) ==
    CASE x.t = "NoneType" -> FALSE
      [] x.t \in {"int", "float"} -> x.v # 0
      [] x.t = "timedelta" -> x.v # 0
      [] OTHER -> TRUE

\* Python 3 orders two values only when their types are comparable;
\* otherwise <, >, >= raise TypeError
Comparable(a, b) ==
    \/ a.t = b.t /\ a.t # "NoneType" /\ a.t # "dict"
    \/ a.t \in {"int", "float"} /\ b.t \in {"int", "float"}

\* datetime - datetime
Sub(a, b) == Timedelta(a.v - b.v)

\* datetime.strptime(s, STITCH_DATETIME_FORMAT): the naive datetime the
\* text denotes, at second precision
Strptime(s) == Datetime(s.v)

\* ------------------------------------------------------------- identifiers
DATA_SOURCE_ID == "bing"
SourceIds == {"bing", "wrong"}
JOB_ID == "baz"
JobNames == {"baz", "old"}
StreamNames == {"qux", "quux"}
Stages == <<"discovery", "tap", "target">>

\* ----------------------------------------------------------------- failures
NoFailure ==
    [kind |-> "none", stage |-> "", status |-> None, description |-> "", stream |-> ""]

Fail(kind) == [NoFailure EXCEPT !.kind = kind]

\* ------------------------------------------------------ remote-side records
ExitStatuses == {None, PyInt(0), PyInt(1)}

DescriptionOf(stage, st) == IF Truthy(st) THEN stage \o " error" ELSE "None"

ExtractionRecords ==
    { [source_id |-> s, job_name |-> j, start_time |-> Str(w),
       discovery_exit_status |-> d, tap_exit_status |-> p, target_exit_status |-> g,
       discovery_description |-> DescriptionOf("discovery", d),
       tap_description |-> DescriptionOf("tap", p),
       target_description |-> DescriptionOf("target", g)] :
        s \in SourceIds, j \in JobNames, w \in WireTimes,
        d \in ExitStatuses, p \in ExitStatuses, g \in ExitStatuses }

LoadRecords ==
    { [source_name |-> s, stream_name |-> n, last_batch_loaded_at |-> l, error_state |-> e] :
        s \in SourceIds, n \in StreamNames,
        l \in {None} \cup {Str(w) : w \in WireTimes}, e \in {None, Dict(1)} }

\* loads of another source that could be mistaken for the polled one's
OtherLoads ==
    { l \in LoadRecords :
        /\ l.source_name # DATA_SOURCE_ID
        /\ l.last_batch_loaded_at = Str(LatestWire)
        /\ l.error_state = None }

\* the polled source's loads; an errored load carries no last_batch_loaded_at
OwnLoads ==
    { l \in LoadRecords :
        /\ l.source_name = DATA_SOURCE_ID
        /\ l.error_state # None => l.last_batch_loaded_at = None }

StreamRecords == { [stream_name |-> n, selected |-> b] : n \in StreamNames, b \in BOOLEAN }

\* sequences over S of length 0, 1 or 2
UpTo2(S) == {<<>>} \cup { <<a>> : a \in S } \cup { <<a, b>> : a \in S, b \in S }

\* ------------------------------------------------------------ pure helpers
Last(S) == CHOOSE i \in S : \A j \in S : j <= i

\* get_extractions without the lookup by data_source_id
get_extractionsAnySource(extractions, data_source_id) ==
    IF extractions = <<>> THEN <<>> ELSE << extractions[Len(extractions)] >>

\* get_extractions: the dict comprehension keeps the last record per
\* source_id; .get(data_source_id, {}) is <<>> when there is none
get_extractions(extractions, data_source_id) ==
    LET idx == { i \in 1..Len(extractions) : extractions[i].source_id = data_source_id }
    IN IF idx = {} THEN <<>> ELSE << extractions[Last(idx)] >>

\* list_recent_loads keyed by stream name alone, whatever the source
list_recent_loadsAnySource(loadlist, data_source_id) ==
    LET idx(n) == { i \in 1..Len(loadlist) : loadlist[i].stream_name = n }
        names == { n \in StreamNames : idx(n) # {} }
    IN [ n \in names |-> loadlist[Last(idx(n))] ]

\* list_recent_loads: all_loads[source_name][stream_name] = load, later
\* records replacing earlier ones; all_loads.get(data_source_id, {})
list_recent_loads(loadlist, data_source_id) ==
    LET idx(n) == { i \in 1..Len(loadlist) :
                      /\ loadlist[i].source_name = data_source_id
                      /\ loadlist[i].stream_name = n }
        names == { n \in StreamNames : idx(n) # {} }
    IN [ n \in names |-> loadlist[Last(idx(n))] ]

\* list_streams: {stream["stream_name"]: stream for stream in streams}, kept
\* in insertion order (a repeated name keeps its first position and takes
\* the later value)
RECURSIVE list_streams(_)
list_streams(streamlist) ==
    IF streamlist = <<>> THEN <<>>
    ELSE LET n == Len(streamlist)
             init == list_streams(SubSeq(streamlist, 1, n - 1))
             x == streamlist[n]
             at == { i \in 1..Len(init) : init[i].stream_name = x.stream_name }
         IN IF at = {} THEN Append(init, x)
            ELSE [ i \in 1..Len(init) |-> IF i \in at THEN x ELSE init[i] ]

\* get_stream_schema without the test of metadata.selected
RECURSIVE get_stream_schemaAll(_)
get_stream_schemaAll(metadata) ==
    IF metadata = <<>> THEN <<>>
    ELSE LET m == Head(metadata)
             rest == get_stream_schemaAll(Tail(metadata))
         IN IF \E i \in 1..Len(m.breadcrumb) : m.breadcrumb[i] = "properties"
            THEN << m.breadcrumb[2] >> \o rest
            ELSE rest

\* get_stream_schema: breadcrumb[1] of every metadata entry whose breadcrumb
\* holds "properties" and whose metadata is selected, in response order
RECURSIVE get_stream_schema(_)
get_stream_schema(metadata) ==
    IF metadata = <<>> THEN <<>>
    ELSE LET m == Head(metadata)
             rest == get_stream_schema(Tail(metadata))
         IN IF (\E i \in 1..Len(m.breadcrumb) : m.breadcrumb[i] = "properties") /\ m.selected
            THEN << m.breadcrumb[2] >> \o rest
            ELSE rest

ExitStatus(e, stage) ==
    CASE stage = "discovery" -> e.discovery_exit_status
      [] stage = "tap" -> e.tap_exit_status
      [] stage = "target" -> e.target_exit_status

Description(e, stage) ==
    CASE stage = "discovery" -> e.discovery_description
      [] stage = "tap" -> e.tap_description
      [] stage = "target" -> e.target_description

\* the test of line 303 inverted
StageSkippedInverted(st) == Truthy(st)

\* resources.py:303: `if not extraction[...]: continue`
StageSkipped(st) == ~Truthy(st)

\* a stage check that reads every stage and raises for none
StageCheckIgnores(e, i) == [failure |-> NoFailure, examined |-> Stages]

\* a stage check that stops at the first unset stage (`break` for `continue`)
RECURSIVE StageCheckStops(_, _)
StageCheckStops(e, i) ==
    IF i > Len(Stages) THEN [failure |-> NoFailure, examined |-> <<>>]
    ELSE LET st == ExitStatus(e, Stages[i])
             raised == [Fail("StageFailed") EXCEPT !.stage = Stages[i], !.status = st,
                            !.description = Description(e, Stages[i])]
         IN IF st = None
            THEN [failure |-> NoFailure, examined |-> << Stages[i] >>]
            ELSE IF st.v # 0
                 THEN [failure |-> raised, examined |-> << Stages[i] >>]
                 ELSE LET r == StageCheckStops(e, i + 1)
                      IN [failure |-> r.failure, examined |-> << Stages[i] >> \o r.examined]

\* the for loop over ("discovery", "tap", "target") from stage i on:
\* the failure raised (or none) and the stages whose status was read
RECURSIVE StageCheck(_, _)
StageCheck(e, i) ==
    IF i > Len(Stages) THEN [failure |-> NoFailure, examined |-> <<>>]
    ELSE LET st == ExitStatus(e, Stages[i])
             raised == [Fail("StageFailed") EXCEPT !.stage = Stages[i], !.status = st,
                            !.description = Description(e, Stages[i])]
         IN IF StageSkipped(st)
            THEN LET r == StageCheck(e, i + 1)
                 IN [failure |-> r.failure, examined |-> << Stages[i] >> \o r.examined]
            ELSE IF st.v # 0
                 THEN [failure |-> raised, examined |-> << Stages[i] >>]
                 ELSE LET r == StageCheck(e, i + 1)
                      IN [failure |-> r.failure, examined |-> << Stages[i] >> \o r.examined]

\* the test of lines 336-343 without its `is None` arm
LoadIncompleteNoNone(load, ls) ==
    /\ load.last_batch_loaded_at # None
    /\ Strptime(load.last_batch_loaded_at).v < ls.v

\* resources.py:336-343: the stream keeps the phase incomplete
LoadIncomplete(load, ls) ==
    \/ load.last_batch_loaded_at = None
    \/ Strptime(load.last_batch_loaded_at).v < ls.v

\* a load error that is not recognised
LoadErroredNever(load) == FALSE

\* resources.py:330: the stream's load error is only logged
LoadErrored(load) == Truthy(load.error_state)

\* the selected flag ignored
StreamCheckedAlways(stream) == TRUE

\* the selected flag read inverted
StreamCheckedInverted(stream) == ~stream.selected

\* resources.py:326: the stream takes part in the completion check
StreamChecked(stream) == stream.selected

\* the body of one load poll (resources.py:324-344) over streams i..:
\* the failure raised (or none), the streams warned about, loading_complete
RECURSIVE LoadCheck(_, _, _, _)
LoadCheck(strs, lds, ls, i) ==
    IF i > Len(strs) THEN [failure |-> NoFailure, warned |-> {}, complete |-> TRUE]
    ELSE LET s == strs[i]
         IN IF ~StreamChecked(s) THEN LoadCheck(strs, lds, ls, i + 1)
            ELSE IF s.stream_name \notin DOMAIN lds
            THEN [failure |-> [Fail("StreamLoadMissing") EXCEPT !.stream = s.stream_name],
                  warned |-> {}, complete |-> FALSE]
            ELSE LET r == LoadCheck(strs, lds, ls, i + 1)
                     load == lds[s.stream_name]
                 IN IF LoadErrored(load)
                    THEN [r EXCEPT !.warned = @ \cup {s.stream_name}]
                    ELSE IF LoadIncomplete(load, ls)
                         THEN [r EXCEPT !.complete = FALSE]
                         ELSE r

\* ------------------------------------------------- decoded response bodies
\* response.json() as make_request looks at it: its JSON type, the value
\* itself, its "data" member if it has one (<<>> if not) and the names in
\* its "links" member if it has one (<<>> if not)
Body(json, whole, data, links) ==
    [json |-> json, whole |-> whole, data |-> data, links |-> links]

NoBody == Body("null", "", <<>>, <<>>)

\* the shapes of tests/constants.py: a bare array, an object without "data",
\* and a page {"data": [...], "page": ..., "total": ..., "links": {}}
ArrayBody(items) == Body("array", items, <<>>, <<>>)
ObjectBody(object) == Body("object", object, <<>>, <<>>)
PageBody(items) == Body("object", [data |-> items, links |-> {}], << items >>, << {} >>)

\* the envelope without its unwrapping: the body is always returned whole
make_request_returnsWhole(body) == body.whole

\* resources.py:97-102: the return value of make_request for a decoded body
make_request_returns(body) ==
    IF body.json # "object" THEN body.whole
    ELSE IF body.data # <<>> THEN body.data[1]
    ELSE body.whole

\* resources.py:99-100: `"next" in response_json.get("links", {})`
PaginationWarning(body) ==
    /\ body.json = "object"
    /\ body.links # <<>>
    /\ "next" \in body.links[1]

\* ------------------------------------------------------------------- state
VARIABLES
    self,                 \* the StitchResource's configuration fields (resources.py:58-66)
    pc,                   \* where the call is: the request in flight, or its end
    now,                  \* the wall clock datetime.now() reads, in ticks
    retries,              \* make_request's local failure count (resources.py:88)
    attempts,             \* requests.request calls of the current make_request (:91)
    calls,                \* make_request invocations so far, per endpoint
    poll_interval,        \* resources.py:268-269
    extraction_timeout,   \* resources.py:270-271
    load_timeout,         \* the argument of resources.py:251
    extraction_start,     \* resources.py:274
    replication_response, \* the job_name of resources.py:275
    extraction,           \* resources.py:278; <<>> is the empty dict
    stages_examined,      \* the stages whose exit status lines 302-305 read
    streams,              \* resources.py:313, in dict order
    load_start,           \* resources.py:314
    loads,                \* resources.py:318
    loading_complete,     \* resources.py:316, 324, 344
    stream_schemas,       \* resources.py:353-356, in dict order
    warnings,             \* streams warned about at resources.py:331
    sleeps,               \* time.sleep(poll_interval) calls so far (:300, :351)
    failure,              \* the exception that ended the call, if any
    response_json,        \* make_request alone: the decoded body (resources.py:95)
    returned,             \* make_request alone: its return value (:97-102)
    pagination_warned     \* make_request alone: the warning of line 100 was logged

vars ==
    << self, pc, now, retries, attempts, calls, poll_interval, extraction_timeout,
       load_timeout, extraction_start, replication_response, extraction,
       stages_examined, streams, load_start, loads, loading_complete,
       stream_schemas, warnings, sleeps, failure, response_json, returned,
       pagination_warned >>

\* what make_request followed on its own keeps of a response
envelope == << response_json, returned, pagination_warned >>

Endpoints == {"sync", "extractions", "streams", "loads", "schema"}

\* the arguments of __init__ (resources.py:47-66); the retry delay of
\* 0.25 s is shorter than one tick and does not move the clock
Configs ==
    { [request_max_retries |-> r,
       default_poll_interval |-> PyFloat(DEFAULT_POLL_INTERVAL),
       default_extraction_timeout |-> d,
       default_load_timeout |-> d,
       request_retry_delay |-> 0] :
        r \in 0..MaxRetries, d \in {None, PyFloat(2)} }

\* the optional arguments of start_replication_job_and_poll
PollArgs == {None, PyFloat(2)}
TimeoutArgs == {None, PyFloat(0), PyFloat(2)}

Init ==
    /\ self \in Configs
    /\ pc = "idle"
    /\ now = 1
    /\ retries = 0
    /\ attempts = 0
    /\ calls = [e \in Endpoints |-> 0]
    /\ poll_interval = None
    /\ extraction_timeout = None
    /\ load_timeout = None
    /\ extraction_start = None
    /\ replication_response = ""
    /\ extraction = <<>>
    /\ stages_examined = <<>>
    /\ streams = <<>>
    /\ load_start = None
    /\ loads = <<>>
    /\ loading_complete = FALSE
    /\ stream_schemas = <<>>
    /\ warnings = {}
    /\ sleeps = 0
    /\ failure = NoFailure
    /\ response_json = NoBody
    /\ returned = ""
    /\ pagination_warned = FALSE

\* a request that inherits the failure count of the one before it
BeginRequestKeepsRetries(e) ==
    /\ pc' = e
    /\ retries' = retries
    /\ attempts' = 0
    /\ calls' = [calls EXCEPT ![e] = @ + 1]

\* entering make_request for endpoint e: retries = 0 (resources.py:88)
BeginRequest(e) ==
    /\ pc' = e
    /\ retries' = 0
    /\ attempts' = 0
    /\ calls' = [calls EXCEPT ![e] = @ + 1]

\* an exception leaves the call
Raise(f) ==
    /\ pc' = "raised"
    /\ failure' = f

\* resources.py:268-275: defaults, extraction_start, then the start request
Call(poll, etimeout, ltimeout) ==
    /\ pc = "idle"
    /\ self.default_extraction_timeout # None => etimeout = None /\ ltimeout = None
    /\ poll # None => self.default_extraction_timeout = None /\ etimeout = None
    /\ poll_interval' = IF poll = None THEN self.default_poll_interval ELSE poll
    /\ extraction_timeout' =
           IF etimeout = None THEN self.default_extraction_timeout ELSE etimeout
    /\ load_timeout' = ltimeout
    /\ extraction_start' = Datetime(now)
    /\ BeginRequest("sync")
    /\ UNCHANGED << envelope, self, now, replication_response, extraction, stages_examined,
                    streams, load_start, loads, loading_complete, stream_schemas,
                    warnings, sleeps, failure >>

InFlight == pc \in Endpoints

\* an off-by-one in the while condition
MayAttemptOffByOne == retries <= self.request_max_retries

\* the while condition of make_request (resources.py:89)
MayAttempt == retries < self.request_max_retries

\* resources.py:103-106: the attempt raises a RequestException; it is
\* logged, counted and followed by the retry delay
RequestFails ==
    /\ InFlight
    /\ MayAttempt
    /\ now + self.request_retry_delay <= MaxTime
    /\ retries' = retries + 1
    /\ attempts' = attempts + 1
    /\ now' = now + self.request_retry_delay
    /\ UNCHANGED << envelope, self, pc, calls, poll_interval, extraction_timeout, load_timeout,
                    extraction_start, replication_response, extraction,
                    stages_examined, streams, load_start, loads, loading_complete,
                    stream_schemas, warnings, sleeps, failure >>

\* an exhausted request that its caller issues again
RequestExhaustedReissued ==
    /\ InFlight
    /\ ~MayAttempt
    /\ failure' = Fail("MaxRetries")
    /\ retries' = 0
    /\ attempts' = 0
    /\ UNCHANGED << envelope, self, pc, now, calls, poll_interval, extraction_timeout,
                    load_timeout, extraction_start, replication_response, extraction,
                    stages_examined, streams, load_start, loads, loading_complete,
                    stream_schemas, warnings, sleeps >>

\* resources.py:108-111: the loop ends without a response
RequestExhausted ==
    /\ InFlight
    /\ ~MayAttempt
    /\ Raise(Fail("MaxRetries"))
    /\ UNCHANGED << envelope, self, now, retries, attempts, calls, poll_interval,
                    extraction_timeout, load_timeout, extraction_start,
                    replication_response, extraction, stages_examined, streams,
                    load_start, loads, loading_complete, stream_schemas, warnings,
                    sleeps >>

\* ---------------------------------------------------- remote-side responses
\* POST sources/{id}/sync: a job_name, or an error field
SyncResponses == { [job_name |-> JOB_ID, error |-> b] : b \in BOOLEAN }

\* records of another source that could be mistaken for the polled one's
OtherExtractions ==
    { e \in ExtractionRecords :
        /\ e.source_id # DATA_SOURCE_ID
        /\ e.job_name = JOB_ID
        /\ e.start_time = Str(LatestWire)
        /\ e.discovery_exit_status = e.tap_exit_status
        /\ e.tap_exit_status = e.target_exit_status
        /\ e.target_exit_status # None }

OwnExtractions == { e \in ExtractionRecords : e.source_id = DATA_SOURCE_ID }

\* GET sources/{account}/extractions: no record, one record, or two records
\* of which one belongs to another source
ExtractionResponses ==
    {<<>>} \cup { <<a>> : a \in OwnExtractions \cup OtherExtractions }
           \cup { <<a, b>> : a \in OtherExtractions, b \in OwnExtractions }
           \cup { <<a, b>> : a \in OwnExtractions, b \in OtherExtractions }

\* the nominal run of tests/constants.py: the started job's record with every
\* stage at 0, one selected stream, one load of it later than any load_start
NominalExtraction(found) ==
    /\ found # <<>>
    /\ found[1].job_name = JOB_ID
    /\ found[1].start_time = Str(0)
    /\ found[1].discovery_exit_status = PyInt(0)
    /\ found[1].tap_exit_status = PyInt(0)
    /\ found[1].target_exit_status = PyInt(0)

NominalStreams == << [stream_name |-> "qux", selected |-> TRUE] >>

NominalLoads ==
    << [source_name |-> DATA_SOURCE_ID, stream_name |-> "qux",
        last_batch_loaded_at |-> Str(LatestWire), error_state |-> None] >>

\* The load phase is explored in full after a nominal extraction record;
\* after any other record that passes the stage check it is explored on
\* the nominal stream list and loads.
\* GET sources/{id}/streams
StreamResponses(e) ==
    IF NominalExtraction(e)
    THEN { r \in UpTo2(StreamRecords) : Len(r) = 2 => r[1].stream_name # r[2].stream_name }
    ELSE {NominalStreams}

\* GET sources/{account}/loads
LoadResponses(e) ==
    IF NominalExtraction(e)
    THEN { r \in UpTo2(OwnLoads \cup OtherLoads) :
             Len(r) = 2 => ~(r[1].stream_name = "quux" /\ r[2].stream_name = "qux") }
    ELSE {NominalLoads}

\* GET sources/{id}/streams/{stream}: the response of tests/constants.py
TestSchemaResponse ==
    << [breadcrumb |-> <<>>, selected |-> TRUE],
       [breadcrumb |-> <<"properties", "author">>, selected |-> TRUE],
       [breadcrumb |-> <<"properties", "description">>, selected |-> TRUE] >>

\* ... and, for the nominal stream list, the same with "description"
\* unselected and with the two properties swapped
SchemaResponses(strs) ==
    IF strs = NominalStreams
    THEN { TestSchemaResponse,
           [TestSchemaResponse EXCEPT ![3].selected = FALSE],
           << TestSchemaResponse[3], TestSchemaResponse[2] >> }
    ELSE { TestSchemaResponse }

\* --------------------------------------------------------- the poll bodies
\* the exit test with `and` in place of `or`
ExtractionExitBoth(e, job_name, es) ==
    IF e.job_name # job_name THEN "continue"
    ELSE IF ~Comparable(e.start_time, es) THEN "TypeError"
    ELSE IF e.start_time.v >= es.v THEN "break"
    ELSE "continue"

\* resources.py:287-292: "break", or "TypeError" when Python cannot order
\* the two operands of >=, or "continue"
ExtractionExit(e, job_name, es) ==
    IF e.job_name = job_name THEN "break"
    ELSE IF ~Comparable(e.start_time, es) THEN "TypeError"
    ELSE IF e.start_time.v >= es.v THEN "break"
    ELSE "continue"

\* a timeout test that never ends the loop
TimeoutCheckNever(timeout, start, t) == "sleep"

\* resources.py:294 and 347: `timeout and datetime.now() - start > timeout`:
\* "raise", "TypeError" when the timedelta and the timeout cannot be
\* ordered, or "sleep"
TimeoutCheck(timeout, start, t) ==
    IF ~Truthy(timeout) THEN "sleep"
    ELSE IF ~Comparable(Sub(Datetime(t), start), timeout) THEN "TypeError"
    ELSE IF Sub(Datetime(t), start).v > timeout.v THEN "raise"
    ELSE "sleep"

\* one pass of the extraction loop on the fetched record (resources.py:278-300)
ExtractionPoll(found, job_name, es, timeout, t) ==
    IF found = <<>> THEN [step |-> "raise", failure |-> Fail("ExtractionNotFound")]
    ELSE LET x == ExtractionExit(found[1], job_name, es)
             c == TimeoutCheck(timeout, es, t)
         IN CASE x = "break" -> [step |-> "break", failure |-> NoFailure]
              [] x = "TypeError" -> [step |-> "raise", failure |-> Fail("TypeError")]
              [] x = "continue" /\ c = "TypeError" ->
                     [step |-> "raise", failure |-> Fail("TypeError")]
              [] x = "continue" /\ c = "raise" ->
                     [step |-> "raise", failure |-> Fail("ExtractionTimeout")]
              [] OTHER -> [step |-> "sleep", failure |-> NoFailure]

\* one pass of the load loop on the fetched loads (resources.py:318-351)
LoadPoll(strs, lds, ls, timeout, t) ==
    IF DOMAIN lds = {}
    THEN [step |-> "raise", failure |-> Fail("LoadNotFound"), warned |-> {}]
    ELSE LET r == LoadCheck(strs, lds, ls, 1)
             c == TimeoutCheck(timeout, ls, t)
         IN CASE r.failure # NoFailure ->
                     [step |-> "raise", failure |-> r.failure, warned |-> r.warned]
              [] r.failure = NoFailure /\ r.complete ->
                     [step |-> "complete", failure |-> NoFailure, warned |-> r.warned]
              [] r.failure = NoFailure /\ ~r.complete /\ c = "TypeError" ->
                     [step |-> "raise", failure |-> Fail("TypeError"), warned |-> r.warned]
              [] r.failure = NoFailure /\ ~r.complete /\ c = "raise" ->
                     [step |-> "raise", failure |-> Fail("LoadTimeout"), warned |-> r.warned]
              [] OTHER -> [step |-> "sleep", failure |-> NoFailure, warned |-> r.warned]

\* ------------------------------------------------------ response handlers
\* a successful attempt counted as a failed one
EndsCallCountsFailure ==
    attempts' = attempts + 1 /\ retries' = retries + 1 /\ UNCHANGED calls

\* the attempt succeeded and the call ends here, by raise or by return
EndsCall == attempts' = attempts + 1 /\ UNCHANGED << retries, calls >>

\* an error field that is never looked at
RejectedNever(resp) == FALSE

\* resources.py:220: `if "error" in response`
Rejected(resp) == resp.error

\* resources.py:220-224 and 275: the start request's response
SyncResponds(resp) ==
    /\ pc = "sync"
    /\ MayAttempt
    /\ IF Rejected(resp)
       THEN /\ Raise(Fail("JobStartRejected"))
            /\ EndsCall
            /\ UNCHANGED replication_response
       ELSE /\ replication_response' = resp.job_name
            /\ BeginRequest("extractions")
            /\ UNCHANGED failure
    /\ UNCHANGED << envelope, self, now, poll_interval, extraction_timeout, load_timeout,
                    extraction_start, extraction, stages_examined, streams,
                    load_start, loads, loading_complete, stream_schemas, warnings,
                    sleeps >>

\* resources.py:278-310: one extraction poll and, once the loop is left,
\* the stage check
ExtractionsResponds(resp) ==
    LET found == get_extractions(resp, DATA_SOURCE_ID)
        r == ExtractionPoll(found, replication_response, extraction_start,
                            extraction_timeout, now)
        sc == StageCheck(found[1], 1)
    IN /\ pc = "extractions"
       /\ MayAttempt
       /\ extraction' = found
       /\ CASE r.step = "raise" ->
                   /\ Raise(r.failure)
                   /\ EndsCall
                   /\ UNCHANGED << now, sleeps, stages_examined >>
            [] r.step = "sleep" ->
                   /\ now + poll_interval.v <= MaxTime
                   /\ now' = now + poll_interval.v
                   /\ sleeps' = sleeps + 1
                   /\ BeginRequest("extractions")
                   /\ UNCHANGED << failure, stages_examined >>
            [] r.step = "break" ->
                   /\ stages_examined' = sc.examined
                   /\ IF sc.failure # NoFailure
                      THEN Raise(sc.failure) /\ EndsCall
                      ELSE BeginRequest("streams") /\ UNCHANGED failure
                   /\ UNCHANGED << now, sleeps >>
       /\ UNCHANGED << envelope, self, poll_interval, extraction_timeout, load_timeout,
                       extraction_start, replication_response, streams, load_start,
                       loads, loading_complete, stream_schemas, warnings >>

\* resources.py:313-316: the stream list, then load_start
StreamsResponds(resp) ==
    /\ pc = "streams"
    /\ MayAttempt
    /\ streams' = list_streams(resp)
    /\ load_start' = Datetime(now)
    /\ loading_complete' = FALSE
    /\ BeginRequest("loads")
    /\ UNCHANGED << envelope, self, now, poll_interval, extraction_timeout, load_timeout,
                    extraction_start, replication_response, extraction,
                    stages_examined, loads, stream_schemas, warnings, sleeps,
                    failure >>

\* resources.py:318-358: one load poll; when it completes the phase, the
\* schema requests follow, or the return when there is no stream
LoadsResponds(resp) ==
    LET lds == list_recent_loads(resp, DATA_SOURCE_ID)
        r == LoadPoll(streams, lds, load_start, load_timeout, now)
    IN /\ pc = "loads"
       /\ MayAttempt
       /\ loads' = lds
       /\ warnings' = warnings \cup r.warned
       /\ loading_complete' = (r.step = "complete")
       /\ CASE r.step = "raise" ->
                   /\ Raise(r.failure)
                   /\ EndsCall
                   /\ UNCHANGED << now, sleeps >>
            [] r.step = "sleep" ->
                   /\ now + poll_interval.v <= MaxTime
                   /\ now' = now + poll_interval.v
                   /\ sleeps' = sleeps + 1
                   /\ BeginRequest("loads")
                   /\ UNCHANGED failure
            [] r.step = "complete" ->
                   /\ IF streams = <<>>
                      THEN pc' = "returned" /\ EndsCall
                      ELSE BeginRequest("schema")
                   /\ UNCHANGED << now, sleeps, failure >>
       /\ UNCHANGED << envelope, self, poll_interval, extraction_timeout, load_timeout,
                       extraction_start, replication_response, extraction,
                       stages_examined, streams, load_start, stream_schemas >>

\* resources.py:353-358: the schema of the next stream of streams.keys();
\* after the last one, StitchOutput(extraction, loads, stream_schemas)
SchemaResponds(resp) ==
    LET k == Len(stream_schemas) + 1
        name == streams[k].stream_name
    IN /\ pc = "schema"
       /\ MayAttempt
       /\ stream_schemas' =
              Append(stream_schemas,
                     [stream_name |-> name, stream_id |-> name,
                      schema |-> get_stream_schema(resp)])
       /\ IF k = Len(streams)
          THEN pc' = "returned" /\ EndsCall
          ELSE BeginRequest("schema")
       /\ UNCHANGED << envelope, self, now, poll_interval, extraction_timeout, load_timeout,
                       extraction_start, replication_response, extraction,
                       stages_examined, streams, load_start, loads,
                       loading_complete, warnings, sleeps, failure >>

\* the bodies the remote side answers with, in the shapes of tests/constants.py
SyncBodies == { ObjectBody(r) : r \in SyncResponses }
ExtractionBodies == { PageBody(r) : r \in ExtractionResponses }
StreamBodies(e) == { ArrayBody(r) : r \in StreamResponses(e) }
LoadBodies(e) == { PageBody(r) : r \in LoadResponses(e) }
SchemaBodies(strs) == { ObjectBody(r) : r \in SchemaResponses(strs) }

Next ==
    \/ \E poll \in PollArgs, t \in TimeoutArgs : Call(poll, t, t)
    \/ RequestFails
    \/ RequestExhausted
    \/ \E body \in SyncBodies : SyncResponds(make_request_returns(body))
    \/ \E body \in ExtractionBodies : ExtractionsResponds(make_request_returns(body))
    \/ \E body \in StreamBodies(extraction) : StreamsResponds(make_request_returns(body))
    \/ \E body \in LoadBodies(extraction) : LoadsResponds(make_request_returns(body))
    \/ \E body \in SchemaBodies(streams) : SchemaResponds(make_request_returns(body))

Spec == Init /\ [][Next]_vars

\* Every HTTP attempt ends, with a response or with an exception, and every
\* time.sleep returns: a call that can take a step eventually takes one.
LiveSpec == Spec /\ WF_vars(Next)

\* ------------------------------------------------------ make_request alone
\* One make_request call (resources.py:68-111) followed on its own, for any
\* endpoint and any decoded body; the values of a body are opaque here.
JsonTypes == {"array", "string", "null", "object"}
Wholes == {"body1", "body2"}
DataMembers == {<<>>, << "data1" >>, << "data2" >>}
LinksMembers == {<<>>, << {} >>, << {"next"} >>, << {"prev"} >>, << {"next", "prev"} >>}

\* an array, a string or null has no members
Bodies ==
    { Body(j, w, <<>>, <<>>) : j \in JsonTypes \ {"object"}, w \in Wholes }
    \cup { Body("object", w, d, l) : w \in Wholes, d \in DataMembers, l \in LinksMembers }

InitMakeRequest ==
    /\ self \in Configs
    /\ pc \in Endpoints
    /\ now = 1
    /\ retries = 0
    /\ attempts = 0
    /\ calls = [e \in Endpoints |-> IF e = pc THEN 1 ELSE 0]
    /\ poll_interval = None
    /\ extraction_timeout = None
    /\ load_timeout = None
    /\ extraction_start = None
    /\ replication_response = ""
    /\ extraction = <<>>
    /\ stages_examined = <<>>
    /\ streams = <<>>
    /\ load_start = None
    /\ loads = <<>>
    /\ loading_complete = FALSE
    /\ stream_schemas = <<>>
    /\ warnings = {}
    /\ sleeps = 0
    /\ failure = NoFailure
    /\ response_json = NoBody
    /\ returned = ""
    /\ pagination_warned = FALSE

\* resources.py:91-102: an attempt gets a response with this decoded body
ResponseArrives(body) ==
    /\ InFlight
    /\ MayAttempt
    /\ response_json' = body
    /\ pagination_warned' = PaginationWarning(body)
    /\ returned' = make_request_returns(body)
    /\ pc' = "returned"
    /\ EndsCall
    /\ UNCHANGED << self, now, poll_interval, extraction_timeout, load_timeout,
                    extraction_start, replication_response, extraction,
                    stages_examined, streams, load_start, loads, loading_complete,
                    stream_schemas, warnings, sleeps, failure >>

NextMakeRequest ==
    \/ RequestFails
    \/ RequestExhausted
    \/ \E body \in Bodies : ResponseArrives(body)

SpecMakeRequest == InitMakeRequest /\ [][NextMakeRequest]_vars

\* ================================================================== claims
\* vocabulary of the claims
IsSet(st) == st # None
SetNonZero(st) == st # None /\ st # PyInt(0)
Fetched == extraction # <<>>
JobMatches == Fetched /\ extraction[1].job_name = replication_response
StageCheckReached == stages_examined # <<>>
BadStages == { i \in 1..Len(Stages) : Fetched /\ SetNonZero(ExitStatus(extraction[1], Stages[i])) }
FirstBad == CHOOSE i \in BadStages : \A j \in BadStages : i <= j
Selected == { streams[i].stream_name : i \in { k \in 1..Len(streams) : streams[k].selected } }
Listed == { streams[i].stream_name : i \in 1..Len(streams) }
SchemaNames == { stream_schemas[i].stream_name : i \in 1..Len(stream_schemas) }
HasLoad(n) == n \in DOMAIN loads
Errored(n) == HasLoad(n) /\ loads[n].error_state # None
LoadedAfter(n) ==
    /\ HasLoad(n)
    /\ loads[n].last_batch_loaded_at # None
    /\ loads[n].last_batch_loaded_at.v > load_start.v
LoadedAtOrAfter(n) ==
    /\ HasLoad(n)
    /\ loads[n].last_batch_loaded_at # None
    /\ loads[n].last_batch_loaded_at.v >= load_start.v
LoadPolled == calls["loads"] >= 1 /\ DOMAIN loads # {}

\* C1: a make_request call never issues more than request_max_retries HTTP
\* attempts, and when it ends in the 'max retries' failure it has issued
\* exactly request_max_retries attempts, all of which failed.
C1_ExactlyMaxRetriesAttempts ==
    /\ attempts <= self.request_max_retries
    /\ failure.kind = "MaxRetries" =>
           attempts = self.request_max_retries /\ retries = self.request_max_retries

C1_Witness ==
    /\ failure.kind = "MaxRetries"
    /\ self.request_max_retries = MaxRetries
    /\ attempts = MaxRetries
    /\ calls["loads"] = 1

\* C2: once a fetched extraction record carries the started job's name the
\* extraction loop has been left for the stage check: no further extraction
\* fetch is pending and no extraction-phase failure was raised, even when the
\* record's start_time is earlier than extraction_start.
C2_JobNameMatchExits ==
    JobMatches => /\ StageCheckReached
                  /\ pc # "extractions"
                  /\ failure.kind \notin {"ExtractionTimeout", "ExtractionNotFound"}

C2_Witness ==
    /\ JobMatches
    /\ extraction[1].start_time.v < extraction_start.v
    /\ pc = "streams"
    /\ sleeps = 0
    /\ calls["extractions"] = 1

\* C3: a fetched record with another job_name but a start_time at or after
\* extraction_start makes the extraction loop exit normally to the stage check.
C3_NewerJobExits ==
    ( /\ Fetched
      /\ calls["extractions"] >= 1
      /\ extraction[1].job_name # replication_response
      /\ extraction[1].start_time.v >= extraction_start.v )
    => StageCheckReached /\ failure.kind # "TypeError"

\* C4: the stage check reads the stages in the order discovery, tap, target;
\* the first stage whose exit status is set and non-zero fails the call with
\* a stage failure carrying that stage, its exit status and its description,
\* and no later stage is read; without such a stage all three are read and
\* no stage failure is raised.
C4_FirstFailedStageRaises ==
    StageCheckReached =>
        IF BadStages = {}
        THEN failure.kind # "StageFailed" /\ stages_examined = Stages
        ELSE /\ failure.kind = "StageFailed"
             /\ failure.stage = Stages[FirstBad]
             /\ failure.status = ExitStatus(extraction[1], Stages[FirstBad])
             /\ failure.description = Description(extraction[1], Stages[FirstBad])
             /\ stages_examined = SubSeq(Stages, 1, FirstBad)
             /\ pc = "raised"

C4_Witness ==
    /\ Fetched
    /\ extraction[1].discovery_exit_status = PyInt(0)
    /\ extraction[1].tap_exit_status = PyInt(1)
    /\ extraction[1].target_exit_status = None
    /\ failure.kind = "StageFailed"
    /\ failure.stage = "tap"
    /\ stages_examined = << "discovery", "tap" >>

\* an earlier stage is unset and a later stage is set and non-zero
UnsetBeforeBad ==
    /\ Fetched
    /\ \E i \in 1..Len(Stages), j \in 1..Len(Stages) :
          /\ i < j
          /\ ExitStatus(extraction[1], Stages[i]) = None
          /\ SetNonZero(ExitStatus(extraction[1], Stages[j]))
          /\ \A k \in 1..(i - 1) : ~SetNonZero(ExitStatus(extraction[1], Stages[k]))

\* C5 (as stated): when an earlier stage is unset and a later stage has a set
\* non-zero status, the stage check raises no stage failure and the call
\* goes on to the load phase.
C5_UnsetStageStopsCheck ==
    StageCheckReached /\ UnsetBeforeBad => failure.kind # "StageFailed"

\* C5 (amended): an unset stage is skipped and the later stages are still
\* checked: when an earlier stage is unset and a later stage has a set
\* non-zero status, the call fails with a stage failure naming the first
\* stage whose status is set and non-zero, and never reaches the load phase.
C5_UnsetStageIsSkipped ==
    StageCheckReached /\ UnsetBeforeBad =>
        /\ failure.kind = "StageFailed"
        /\ failure.stage = Stages[FirstBad]
        /\ calls["streams"] = 0

C5_Witness ==
    /\ StageCheckReached
    /\ extraction[1].discovery_exit_status = None
    /\ extraction[1].tap_exit_status = PyInt(1)
    /\ failure.kind = "StageFailed"
    /\ failure.stage = "tap"

\* C6 (as stated): the load phase is complete only when every selected
\* stream is errored or has a last_batch_loaded_at strictly later than
\* load_start.
C6_CompleteOnlyWhenStrictlyLater ==
    loading_complete => \A n \in Selected : Errored(n) \/ LoadedAfter(n)

\* C6 (amended): the load phase is complete only when every selected stream
\* has a load record that is errored or whose last_batch_loaded_at is
\* present and not earlier than load_start; a last_batch_loaded_at equal to
\* load_start counts as loaded, an absent or earlier one keeps the phase
\* incomplete.
C6_CompleteOnlyWhenNotEarlier ==
    loading_complete =>
        \A n \in Selected : HasLoad(n) /\ (Errored(n) \/ LoadedAtOrAfter(n))

C6_Witness ==
    /\ loading_complete
    /\ \E n \in Selected :
          /\ ~Errored(n)
          /\ LoadedAtOrAfter(n)
          /\ loads[n].last_batch_loaded_at.v = load_start.v

\* C7: when the loads of a poll show a selected stream with error_state set
\* and every other selected stream loaded after load_start, the phase is
\* complete on that poll, a warning is logged for each errored stream, and
\* the call goes on to the schema requests and returns; only a request that
\* runs out of retries can still fail it.
C7_ErroredStreamDoesNotBlock ==
    ( /\ LoadPolled
      /\ \E n \in Selected : Errored(n)
      /\ \A n \in Selected : Errored(n) \/ LoadedAfter(n) )
    => /\ loading_complete
       /\ pc \in {"schema", "returned", "raised"}
       /\ pc = "raised" => failure.kind = "MaxRetries" /\ calls["schema"] >= 1
       /\ { n \in Selected : Errored(n) } \subseteq warnings

C7_Witness ==
    /\ pc = "returned"
    /\ Cardinality(Selected) = 2
    /\ \E n \in Selected, m \in Selected :
          /\ n # m
          /\ Errored(n)
          /\ ~Errored(m)
          /\ LoadedAfter(m)
          /\ warnings = {n}

\* C8: when the call returns, the extraction record of the result has all
\* three stage exit statuses set.
C8_ReturnsOnlyTerminal ==
    pc = "returned" =>
        \A i \in 1..Len(Stages) : IsSet(ExitStatus(extraction[1], Stages[i]))

\* C9 (as stated): in a returned result the stream names of the load mapping
\* and of the schema mapping are subsets of the selected streams.
C9_MappingsWithinSelected ==
    pc = "returned" => DOMAIN loads \subseteq Selected /\ SchemaNames \subseteq Selected

\* C9 (amended): in a returned result the schema mapping holds exactly the
\* streams of the stream list fetched during the call, selected or not, and
\* the load mapping holds a record for every selected stream; it may also
\* hold records of unselected streams.
C9_MappingsCoverStreamList ==
    pc = "returned" =>
        /\ SchemaNames = Listed
        /\ Len(stream_schemas) = Len(streams)
        /\ Selected \subseteq DOMAIN loads

C9_Witness ==
    /\ pc = "returned"
    /\ \E n \in Listed \ Selected : n \in SchemaNames /\ n \in DOMAIN loads

\* C10: with a positive load timeout T, a call that fails in the load phase
\* for a reason other than a missing load or an exhausted request fails
\* with the load-timeout failure, raised when more than T has elapsed since
\* load_start.
C10_LoadTimeoutFailure ==
    ( /\ pc = "raised"
      /\ LoadPolled
      /\ load_timeout # None
      /\ load_timeout.v > 0
      /\ failure.kind \notin {"MaxRetries", "StreamLoadMissing", "LoadNotFound"} )
    => failure.kind = "LoadTimeout" /\ now - load_start.v > load_timeout.v

\* C11: with a positive extraction timeout T and a fetched record that neither
\* carries the started job's name nor has a start_time at or after
\* extraction_start, the call never reaches the stage check, and when it
\* fails it fails with the extraction-timeout failure, raised when more than
\* T has elapsed since extraction_start (or with an exhausted request).
C11_ExtractionTimeoutFailure ==
    ( /\ Fetched
      /\ calls["extractions"] >= 1
      /\ extraction_timeout # None
      /\ extraction_timeout.v > 0
      /\ extraction[1].job_name # replication_response
      /\ extraction[1].start_time.v < extraction_start.v )
    => /\ ~StageCheckReached
       /\ pc = "raised" =>
              \/ failure.kind = "MaxRetries"
              \/ /\ failure.kind = "ExtractionTimeout"
                 /\ now - extraction_start.v > extraction_timeout.v

\* what the caller of make_request can observe: everything but the two
\* counters local to make_request
CallState ==
    << pc, now, calls, poll_interval, extraction_timeout, load_timeout,
       extraction_start, replication_response, extraction, stages_examined,
       streams, load_start, loads, loading_complete, stream_schemas, warnings,
       sleeps, failure >>

\* a step of a request that has failed at least once and may still attempt
AttemptAfterFailure == InFlight /\ retries > 0 /\ MayAttempt

C13_RejectedStartEndsCall ==
    /\ [](pc # "idle" => calls["sync"] = 1)
    /\ [](failure.kind = "JobStartRejected" =>
              /\ pc = "raised"
              /\ calls = [e \in Endpoints |-> IF e = "sync" THEN 1 ELSE 0]
              /\ extraction = <<>>
              /\ streams = <<>>
              /\ stream_schemas = <<>>)
    /\ [][ \A resp \in SyncResponses :
              SyncResponds(resp) /\ resp.error =>
                  pc' = "raised" /\ failure'.kind = "JobStartRejected" ]_vars

C13_Witness ==
    /\ failure.kind = "JobStartRejected"
    /\ pc = "raised"
    /\ calls["sync"] = 1
    /\ calls["extractions"] = 0
    /\ retries > 0

\* the response holds no record of the data source
NoRecordFor(resp, data_source_id) ==
    \A i \in 1..Len(resp) : resp[i].source_id # data_source_id

ResponsesWithoutRecord ==
    { resp \in ExtractionResponses : NoRecordFor(resp, DATA_SOURCE_ID) }

\* C14: an extractions response without a record of the polled data source,
\* whether empty or holding other sources' records, fails the call at once
\* with the extraction-not-found failure: no sleep, no further request, and
\* after that failure the call never polls again nor reaches the load phase.
C14_MissingExtractionFailsAtOnce ==
    /\ [](failure.kind = "ExtractionNotFound" =>
              /\ pc = "raised"
              /\ extraction = <<>>
              /\ stages_examined = <<>>
              /\ calls["streams"] = 0
              /\ calls["loads"] = 0
              /\ calls["schema"] = 0)
    /\ [][ \A resp \in ResponsesWithoutRecord :
              ExtractionsResponds(resp) =>
                  /\ pc' = "raised"
                  /\ failure'.kind = "ExtractionNotFound"
                  /\ sleeps' = sleeps
                  /\ now' = now
                  /\ calls' = calls ]_vars

C14_Witness ==
    /\ failure.kind = "ExtractionNotFound"
    /\ pc = "raised"
    /\ calls["extractions"] = 1
    /\ sleeps = 0
    /\ \E resp \in ResponsesWithoutRecord : resp # <<>>

\* positions in the stream list of the selected streams without a load record
MissingSelected == { k \in 1..Len(streams) : streams[k].selected /\ ~HasLoad(streams[k].stream_name) }
FirstMissing == CHOOSE k \in MissingSelected : \A j \in MissingSelected : k <= j
Unselected == Listed \ Selected

\* a step in which the response to a loads request arrives
LoadsResponse == pc = "loads" /\ MayAttempt /\ retries' # retries + 1

\* C15: after every load poll, an empty load set of the data source has
\* failed the call with the load-not-found failure; a non-empty load set
\* without a record of some selected stream has failed it with the
\* stream-load-missing failure naming the first such stream; and when every
\* selected stream has a record neither failure is raised and completion is
\* decided by the selected streams alone, whether or not an unselected
\* stream has a record.
C15_MissingLoadsFail ==
    [][ LoadsResponse =>
          ( /\ DOMAIN loads = {} =>
                   pc = "raised" /\ failure.kind = "LoadNotFound"
            /\ DOMAIN loads # {} /\ MissingSelected # {} =>
                   /\ pc = "raised"
                   /\ failure.kind = "StreamLoadMissing"
                   /\ failure.stream = streams[FirstMissing].stream_name
            /\ DOMAIN loads # {} /\ MissingSelected = {} =>
                   /\ failure.kind \notin {"LoadNotFound", "StreamLoadMissing"}
                   /\ loading_complete <=>
                          \A n \in Selected : Errored(n) \/ LoadedAtOrAfter(n) )' ]_vars

C15_Witness ==
    /\ pc = "raised"
    /\ failure.kind = "StreamLoadMissing"
    /\ Cardinality(Selected) = 2
    /\ DOMAIN loads # {}
    /\ failure.stream = streams[2].stream_name
    /\ ~HasLoad(failure.stream)

\* C16: when make_request returns, its value is the decoded body itself if
\* the body is not a JSON object; for an object it is the "data" member when
\* there is one and the whole object otherwise. A "next" entry in "links"
\* logs the pagination warning and nothing else: the value returned is the
\* same and the response is the request's last attempt.
C16_ReturnValue ==
    pc = "returned" =>
        /\ failure = NoFailure
        /\ attempts = retries + 1
        /\ \A e \in Endpoints : calls[e] <= 1
        /\ returned =
               IF response_json.json = "object" /\ response_json.data # <<>>
               THEN response_json.data[1]
               ELSE response_json.whole
        /\ pagination_warned <=>
               /\ response_json.json = "object"
               /\ response_json.links # <<>>
               /\ "next" \in response_json.links[1]

C16_Witness ==
    /\ pc = "returned"
    /\ pagination_warned
    /\ response_json.data # <<>>
    /\ returned = response_json.data[1]
    /\ returned # response_json.whole
    /\ retries > 0

\* the nominal run: the fetched record carries the started job's name with
\* every stage at 0, the stream list is one selected stream, and the first
\* loads fetch holds its load, not errored, loaded after load_start
NominalRun ==
    /\ JobMatches
    /\ \A i \in 1..Len(Stages) : ExitStatus(extraction[1], Stages[i]) = PyInt(0)
    /\ Len(streams) = 1
    /\ streams[1].selected
    /\ LoadPolled
    /\ calls["loads"] = 1
    /\ ~Errored(streams[1].stream_name)
    /\ LoadedAfter(streams[1].stream_name)

\* the selected property names of a schema response, in response order
IsSelectedProperty(m) ==
    m.selected /\ \E i \in 1..Len(m.breadcrumb) : m.breadcrumb[i] = "properties"
SelectedProperties(metadata) ==
    LET sel == SelectSeq(metadata, IsSelectedProperty)
    IN [ i \in 1..Len(sel) |-> sel[i].breadcrumb[2] ]

\* C17: in the nominal run the call never sleeps, issues exactly one start,
\* one extractions, one streams, one loads and one schema request, fails
\* only if a request runs out of retries, and returns a schema mapping that
\* holds exactly the one stream with its selected property names in
\* response order.
C17_NominalRunSucceeds ==
    /\ [](NominalRun =>
              /\ sleeps = 0
              /\ pc \in {"schema", "returned", "raised"}
              /\ pc = "raised" => failure.kind = "MaxRetries"
              /\ calls = [e \in Endpoints |-> 1]
              /\ pc = "returned" =>
                     /\ failure = NoFailure
                     /\ Len(stream_schemas) = 1
                     /\ stream_schemas[1].stream_name = streams[1].stream_name)
    /\ [][ NominalRun => calls' \in {calls, [calls EXCEPT !["schema"] = 1]} ]_vars
    /\ [][ \A body \in SchemaBodies(streams) :
              NominalRun /\ SchemaResponds(make_request_returns(body)) =>
                  /\ pc' = "returned"
                  /\ stream_schemas' =
                         << [stream_name |-> streams[1].stream_name,
                             stream_id |-> streams[1].stream_name,
                             schema |-> SelectedProperties(body.whole)] >> ]_vars

C17_Witness ==
    /\ NominalRun
    /\ pc = "returned"
    /\ sleeps = 0
    /\ calls = [e \in Endpoints |-> 1]
    /\ streams = NominalStreams
    /\ stream_schemas =
           << [stream_name |-> "qux", stream_id |-> "qux",
               schema |-> << "author", "description" >>] >>

\* C18: a call made without a load_timeout argument on a resource
\* configured with a default load timeout polls the load phase under that
\* default, as the extraction phase does under the default extraction
\* timeout. (A resource with default timeouts is called without timeout
\* arguments.)
C18_DefaultLoadTimeoutGoverns ==
    pc # "idle" /\ self.default_load_timeout # None =>
        /\ extraction_timeout = self.default_extraction_timeout
        /\ load_timeout = self.default_load_timeout

\* C19: the phases of a call follow one another in a fixed order.
\* extraction_start is recorded by the time the start request is issued and
\* never changes; an extractions request is issued only once the start
\* request has answered with its job_name; the streams request is issued
\* exactly once, from the extraction loop, after the stage check has read
\* all three stages without finding a set non-zero status; load_start is
\* recorded with the answer to the streams request, before the first loads
\* request, and never changes; a schema request is issued only once the
\* load phase is complete; no extractions request follows a loads request.
C19_PhaseOrder ==
    /\ [](/\ pc # "idle" => extraction_start # None /\ calls["sync"] = 1
          /\ calls["extractions"] >= 1 => replication_response # ""
          /\ calls["streams"] <= 1
          /\ calls["streams"] = 1 =>
                 /\ Fetched
                 /\ stages_examined = Stages
                 /\ BadStages = {}
          /\ calls["loads"] >= 1 <=> load_start # None
          /\ calls["loads"] >= 1 => calls["streams"] = 1 /\ pc # "streams"
          /\ calls["schema"] >= 1 => loading_complete /\ calls["loads"] >= 1
          /\ calls["schema"] <= Len(streams))
    /\ [][ /\ extraction_start # None => extraction_start' = extraction_start
           /\ load_start # None => load_start' = load_start
           /\ calls'["extractions"] > calls["extractions"] =>
                  pc \in {"sync", "extractions"} /\ calls["loads"] = 0
           /\ calls'["streams"] > calls["streams"] => pc = "extractions"
           /\ calls'["loads"] > calls["loads"] => pc \in {"streams", "loads"}
           /\ calls'["schema"] > calls["schema"] => pc \in {"loads", "schema"}
           /\ load_start' # load_start => pc = "streams" /\ load_start'.v = now ]_vars

C19_Witness ==
    /\ pc = "returned"
    /\ calls["sync"] = 1
    /\ calls["extractions"] = 1
    /\ calls["streams"] = 1
    /\ calls["loads"] = 2
    /\ calls["schema"] = 2
    /\ sleeps = 1
    /\ load_start.v >= extraction_start.v

Positive(timeout) == timeout # None /\ timeout.v > 0
Terminated == pc \in {"returned", "raised"}

\* clock readings at which more than the timeout has elapsed since start
Expired(start, timeout) == { start.v + timeout.v + k : k \in 1..2 }

\* whatever the remote side answers once the timeout has expired, the poll
\* does not go back to sleep
ExtractionLoopEndsAtExpiry ==
    \A body \in ExtractionBodies, t \in Expired(extraction_start, extraction_timeout) :
        ExtractionPoll(get_extractions(make_request_returns(body), DATA_SOURCE_ID),
                       replication_response, extraction_start, extraction_timeout,
                       t).step # "sleep"
LoadLoopEndsAtExpiry ==
    \A body \in LoadBodies(extraction), t \in Expired(load_start, load_timeout) :
        LoadPoll(streams, list_recent_loads(make_request_returns(body), DATA_SOURCE_ID),
                 load_start, load_timeout, t).step # "sleep"

SatisfiesExit(found) ==
    /\ found # <<>>
    /\ \/ found[1].job_name = replication_response
       \/ found[1].start_time.v >= extraction_start.v

\* the polled loads settle every selected stream of the stream list
Settles(lds) ==
    /\ DOMAIN lds # {}
    /\ \A k \in 1..Len(streams) :
          streams[k].selected =>
              /\ streams[k].stream_name \in DOMAIN lds
              /\ \/ lds[streams[k].stream_name].error_state # None
                 \/ /\ lds[streams[k].stream_name].last_batch_loaded_at # None
                    /\ lds[streams[k].stream_name].last_batch_loaded_at.v >= load_start.v

\* C21: the timeout of a phase is looked at only on an iteration that leaves
\* the phase unfinished. With a positive timeout and a clock reading at
\* which more than the timeout has elapsed, a fetched record that satisfies
\* the exit condition takes the extraction loop to the stage check, and
\* loads that settle every selected stream complete the load phase.
C21_TimeoutOnlyWhenUnfinished ==
    /\ pc = "extractions" /\ Positive(extraction_timeout) =>
           \A body \in ExtractionBodies, t \in Expired(extraction_start, extraction_timeout) :
               LET found == get_extractions(make_request_returns(body), DATA_SOURCE_ID)
               IN SatisfiesExit(found) =>
                      ExtractionPoll(found, replication_response, extraction_start,
                                     extraction_timeout, t).step = "break"
    /\ pc = "loads" /\ Positive(load_timeout) =>
           \A body \in LoadBodies(extraction), t \in Expired(load_start, load_timeout) :
               LET lds == list_recent_loads(make_request_returns(body), DATA_SOURCE_ID)
               IN Settles(lds) =>
                      LoadPoll(streams, lds, load_start, load_timeout, t).step = "complete"

\* C22: a request that runs out of retries ends the call where it stands:
\* the call has raised, it has returned no result, every attempt of that
\* request failed, and no step of the call follows: no request, no sleep,
\* no poll.
C22_ExhaustedRequestEndsCall ==
    failure.kind = "MaxRetries" =>
        /\ pc = "raised"
        /\ attempts = self.request_max_retries
        /\ retries = attempts
        /\ Len(stream_schemas) < Len(streams) \/ streams = <<>>
        /\ ~ENABLED Next

C22_Witness ==
    /\ failure.kind = "MaxRetries"
    /\ pc = "raised"
    /\ calls["schema"] = 2
    /\ Len(stream_schemas) = 1
    /\ loading_complete
    /\ self.request_max_retries = MaxRetries

\* C24: the retry budget belongs to the request. A request that has made
\* no attempt yet has a failure count of zero whatever the requests before
\* it absorbed; its failure count is the number of its own attempts so far,
\* it may attempt again exactly while that number is below
\* request_max_retries, and it is given up only after request_max_retries
\* attempts of its own.
C24_RetryBudgetPerRequest ==
    /\ InFlight /\ attempts = 0 => retries = 0
    /\ InFlight => /\ retries = attempts
                   /\ MayAttempt <=> attempts < self.request_max_retries
    /\ failure.kind = "MaxRetries" => attempts = self.request_max_retries

\* the last of several requests absorbed r - 1 failures and the call returned
C24_Witness ==
    /\ pc = "returned"
    /\ self.request_max_retries = MaxRetries
    /\ retries = MaxRetries - 1
    /\ attempts = MaxRetries
    /\ calls["loads"] = 2
    /\ calls["schema"] = 2

\* two records of one stream in a loads response, of any sources
SameStreamPairs ==
    { r \in UpTo2(OwnLoads \cup OtherLoads) :
        Len(r) = 2 /\ r[1].stream_name = r[2].stream_name }

OfPolledSource(load) == load.source_name = DATA_SOURCE_ID

\* C25: the load set of a call holds only records of the polled data source,
\* each under its own stream name, and the phase is complete only when every
\* selected stream has such a record that is errored or loaded since
\* load_start. Of two records of one stream in a response the later one of
\* the polled source is the one kept; a record of another source neither
\* replaces it nor stands in for it, and a response with records of other
\* sources only fails the call with the load-not-found failure.
C25_OtherSourcesIgnored ==
    /\ [](\A n \in DOMAIN loads :
              OfPolledSource(loads[n]) /\ loads[n].stream_name = n)
    /\ [](loading_complete =>
              \A n \in Selected :
                  /\ HasLoad(n)
                  /\ OfPolledSource(loads[n])
                  /\ Errored(n) \/ LoadedAtOrAfter(n))
    /\ [][ LoadsResponse =>
             \A r \in SameStreamPairs :
                 LoadsResponds(r) =>
                     LET n == r[1].stream_name
                     IN CASE OfPolledSource(r[2]) ->
                                 n \in DOMAIN loads' /\ loads'[n] = r[2]
                          [] ~OfPolledSource(r[2]) /\ OfPolledSource(r[1]) ->
                                 n \in DOMAIN loads' /\ loads'[n] = r[1]
                          [] OTHER ->
                                 /\ DOMAIN loads' = {}
                                 /\ pc' = "raised"
                                 /\ failure'.kind = "LoadNotFound" ]_vars

\* a load poll has left a selected stream's record of the polled source not
\* loaded yet, and the next response, a fresh load of the same-named stream
\* of another source alone, ends the call with the load-not-found failure
C25_Witness ==
    /\ pc = "loads"
    /\ calls["loads"] = 2
    /\ sleeps = 1
    /\ "qux" \in Selected
    /\ HasLoad("qux")
    /\ ~Errored("qux")
    /\ ~LoadedAtOrAfter("qux")
    /\ ENABLED ( /\ LoadsResponds(<< [source_name |-> "wrong", stream_name |-> "qux",
                                      last_batch_loaded_at |-> Str(LatestWire),
                                      error_state |-> None] >>)
                 /\ ~loading_complete'
                 /\ failure'.kind = "LoadNotFound" )

\* C26: a timeout of 0 is a set timeout. With extraction_timeout = 0, a first
\* extraction poll that fetched a record not satisfying the exit condition
\* has ended the call with the extraction timeout failure; with
\* load_timeout = 0, a first load poll that found a record for every
\* selected stream without completing the phase has ended the call with the
\* load timeout failure. Neither phase polls a second time.
C26_ZeroTimeoutIsSet ==
    /\ /\ extraction_timeout = PyFloat(0)
       /\ extraction # <<>>
       /\ ~SatisfiesExit(extraction)
       => /\ pc = "raised"
          /\ failure.kind = "ExtractionTimeout"
          /\ calls["extractions"] = 1
    /\ /\ load_timeout = PyFloat(0)
       /\ LoadPolled
       /\ MissingSelected = {}
       /\ ~loading_complete
       => /\ pc = "raised"
          /\ failure.kind = "LoadTimeout"
          /\ calls["loads"] = 1

====
